---- MODULE Spec2Model ----
(***************************************************************************)
(* Model of src/app.py: process_file runs calculate_preference_stats and   *)
(* then perform_allocation on one parsed table (a pandas DataFrame).       *)
(*                                                                         *)
(* A row of the table is a record [Roll, CGPA, pref]; Name and Email are   *)
(* copied unchanged next to Roll and are carried by Roll here.  Roll is    *)
(* the row's position in the input (Rolls are unique).  A cell is a Python *)
(* value as pandas hands it to the code:                                   *)
(*    [kind |-> "int",  val |-> v]   the number v                          *)
(*    [kind |-> "nan",  val |-> 0]   a missing value (NaN)                 *)
(*    [kind |-> "str",  val |-> v]   a string that spells the number v     *)
(*    [kind |-> "text", val |-> 0]   a string that spells no number        *)
(* Resource (faculty) columns are named by their position 1..n_faculties   *)
(* in faculty_cols.                                                        *)
(***************************************************************************)
EXTENDS Integers, Sequences, FiniteSets

VARIABLES
    df,                      \* the input table: sequence of rows, input order
    n_faculties,             \* len(faculty_cols)
    pc,                      \* position in process_file / perform_allocation
    stats_df,                \* result of calculate_preference_stats
    sorted_students,         \* rows after sort_values(by='CGPA', ascending=False)
    pref_rank,               \* outer loop variable of perform_allocation
    current_faculty,         \* middle loop variable (position in faculty_list)
    allocated_student_rolls, \* set of Rolls already allocated
    faculty_alloc_count,     \* per-faculty allocation counter
    final_allocation_list,   \* assignment records, in the order appended
    final_alloc_df           \* the returned frame (sequence of records)

vars == <<df, n_faculties, pc, stats_df, sorted_students, pref_rank,
          current_faculty, allocated_student_rolls, faculty_alloc_count,
          final_allocation_list, final_alloc_df>>

\* ---- bounds of the model ----
MaxStudents == 3   \* rows of the table
MaxFaculties == 3  \* resource columns of the table
MaxCells == 6      \* rows * resource columns
MaxCGPA == 2       \* CGPA values are 1..MaxCGPA or missing

\* ---- Python values ----
NaN == [kind |-> "nan", val |-> 0]
Text == [kind |-> "text", val |-> 0]
IntVal(v) == [kind |-> "int", val |-> v]
StrVal(v) == [kind |-> "str", val |-> v]

UNALLOCATED == 0

\* pd.to_numeric(x, errors='coerce') on a scalar: a number stays, a string
\* that spells a number becomes that number, anything else becomes NaN.
to_numeric(x) ==
    CASE x.kind = "int" -> x
      [] x.kind = "str" -> IntVal(x.val)
      [] OTHER -> NaN

\* Variant: <= instead of ==.
NumLe(a, i) == a.kind = "int" /\ a.val <= i

\* Python's  a == i  for a coerced value a and an int i (NaN equals nothing).
NumEq(a, i) == a.kind = "int" /\ a.val = i

\* dict.get(i, 0) on Series.value_counts().to_dict(): value_counts drops NaN
\* and keys the counts by the cell values themselves; the int key i is met
\* only by a cell that is the number i (the string "1" is another key).
KeyEq(x, i) == x.kind = "int" /\ x.val = i

RECURSIVE CountKey(_, _, _, _)
CountKey(rows, fac, i, k) ==
    IF k > Len(rows) THEN 0
    ELSE (IF KeyEq(rows[k].pref[fac], i) THEN 1 ELSE 0) + CountKey(rows, fac, i, k + 1)

\* calculate_preference_stats: one row per faculty column, in column order,
\* 'Count Pref i' for i in 1..n.
calculate_preference_stats(rows, n) ==
    [fac \in 1..n |-> [i \in 1..n |-> CountKey(rows, fac, i, 1)]]

\* Lines 107-115: the first faculty column, in faculty_list order, whose
\* coerced value equals pref_rank; 0 stands for None.
RECURSIVE FacultyAtPrefFrom(_, _, _, _)
FacultyAtPrefFrom(student, rank, n, f) ==
    IF f > n THEN 0
    ELSE IF NumEq(to_numeric(student.pref[f]), rank) THEN f
    ELSE FacultyAtPrefFrom(student, rank, n, f + 1)

\* Variant: the last matching column instead of the first (no break).
RECURSIVE FacultyAtPrefBack(_, _, _)
FacultyAtPrefBack(student, rank, f) ==
    IF f = 0 THEN 0
    ELSE IF NumEq(to_numeric(student.pref[f]), rank) THEN f
    ELSE FacultyAtPrefBack(student, rank, f - 1)

faculty_at_pref_last(student, rank, n) == FacultyAtPrefBack(student, rank, n)

faculty_at_pref(student, rank, n) == FacultyAtPrefFrom(student, rank, n, 1)

\* Lines 100-121: the student the inner loop stops at, as a position in
\* sorted_students; 0 when the loop runs to its end.
RECURSIVE ScanFrom(_, _, _, _, _, _)
ScanFrom(students, allocated, rank, fac, n, k) ==
    IF k > Len(students) THEN 0
    ELSE IF students[k].Roll \in allocated THEN ScanFrom(students, allocated, rank, fac, n, k + 1)
    ELSE IF faculty_at_pref(students[k], rank, n) = fac THEN k
    ELSE ScanFrom(students, allocated, rank, fac, n, k + 1)

\* Variant: the inner loop keeps the last match instead of stopping at the
\* first (a missing break).
RECURSIVE ScanBack(_, _, _, _, _, _)
ScanBack(students, allocated, rank, fac, n, k) ==
    IF k = 0 THEN 0
    ELSE IF students[k].Roll \notin allocated /\ faculty_at_pref(students[k], rank, n) = fac THEN k
    ELSE ScanBack(students, allocated, rank, fac, n, k - 1)

LastMatch(students, allocated, rank, fac, n) ==
    ScanBack(students, allocated, rank, fac, n, Len(students))

\* Variant: the scan starts at the second student (off by one).
FirstMatchFromSecond(students, allocated, rank, fac, n) ==
    ScanFrom(students, allocated, rank, fac, n, 2)

FirstMatch(students, allocated, rank, fac, n) == ScanFrom(students, allocated, rank, fac, n, 1)

\* sort_values(by='CGPA', ascending=False): numbers in descending order,
\* NaN last; the default sort kind is not stable, so rows of equal CGPA may
\* come out in any order.
IsNaN(x) == x.kind = "nan"

Before(a, b) ==
    \/ ~IsNaN(a.CGPA) /\ IsNaN(b.CGPA)
    \/ ~IsNaN(a.CGPA) /\ ~IsNaN(b.CGPA) /\ a.CGPA.val >= b.CGPA.val
    \/ IsNaN(a.CGPA) /\ IsNaN(b.CGPA)

IsSortedDesc(s) == \A i, j \in 1..Len(s) : i < j => Before(s[i], s[j])

Permutations(rows) ==
    {s \in [1..Len(rows) -> {rows[k] : k \in 1..Len(rows)}] :
        \A k \in 1..Len(rows) : \E j \in 1..Len(rows) : s[j] = rows[k]}

sort_values(rows) == {s \in Permutations(rows) : IsSortedDesc(s)}

\* ---- inputs ----
\* A rank cell of a table that follows the data model: a rank in 1..n or a
\* missing value.
RankCells(n) == {IntVal(v) : v \in 1..n} \cup {NaN}

\* Cells of any kind: numbers in and out of range (negative, zero, rank 1),
\* a missing value, a string that spells no number and the string "1".
AnyCells == {IntVal(v) : v \in {-1, 0, 1}} \cup {NaN, Text, StrVal(1)}

CGPACells == {IntVal(v) : v \in 1..MaxCGPA} \cup {NaN}

\* Row counts of a table with n resource columns.
RowCounts(n) == {m \in 0..MaxStudents : m * n <= MaxCells}

Start ==
    /\ pc = "stats"
    /\ stats_df = <<>>
    /\ sorted_students = <<>>
    /\ pref_rank = 0
    /\ current_faculty = 0
    /\ allocated_student_rolls = {}
    /\ faculty_alloc_count = <<>>
    /\ final_allocation_list = <<>>
    /\ final_alloc_df = <<>>

\* Row k of a table: Roll k, a CGPA and one cell per resource column.
Row(k, cgpa, cells) == [Roll |-> k, CGPA |-> cgpa, pref |-> cells]

\* Tables whose CGPA is any number or missing and whose cells are ranks.
Init ==
    /\ n_faculties \in 1..MaxFaculties
    /\ \E m \in RowCounts(n_faculties) :
         \E c \in [1..m -> CGPACells], p \in [1..m -> [1..n_faculties -> RankCells(n_faculties)]] :
             df = [k \in 1..m |-> Row(k, c[k], p[k])]
    /\ Start

\* Tables of distinct CGPA (row k has CGPA k) whose cells are of any kind.
InitCells ==
    /\ n_faculties \in 1..MaxFaculties
    /\ \E m \in RowCounts(n_faculties) :
         \E p \in [1..m -> [1..n_faculties -> AnyCells]] :
             df = [k \in 1..m |-> Row(k, IntVal(k), p[k])]
    /\ Start

\* process_file line 200
CalcStats ==
    /\ pc = "stats"
    /\ stats_df' = calculate_preference_stats(df, n_faculties)
    /\ pc' = "sort"
    /\ UNCHANGED <<df, n_faculties, sorted_students, pref_rank, current_faculty,
                   allocated_student_rolls, faculty_alloc_count,
                   final_allocation_list, final_alloc_df>>

\* perform_allocation lines 78-94
SortStudents ==
    /\ pc = "sort"
    /\ sorted_students' \in sort_values(df)
    /\ faculty_alloc_count' = [f \in 1..n_faculties |-> 0]
    /\ allocated_student_rolls' = {}
    /\ final_allocation_list' = <<>>
    /\ pref_rank' = 1
    /\ current_faculty' = 1
    /\ pc' = "loop"
    /\ UNCHANGED <<df, n_faculties, stats_df, final_alloc_df>>

\* Variant: the two loops nested the other way round (faculty outermost).
NextPassFacultyMajor ==
    IF pref_rank < n_faculties
    THEN /\ pref_rank' = pref_rank + 1
         /\ current_faculty' = current_faculty
         /\ pc' = "loop"
    ELSE IF current_faculty < n_faculties
    THEN /\ pref_rank' = 1
         /\ current_faculty' = current_faculty + 1
         /\ pc' = "loop"
    ELSE /\ current_faculty' = current_faculty
         /\ pref_rank' = pref_rank
         /\ pc' = "unalloc"

\* the two for-headers of lines 94 and 97: next (pref_rank, current_faculty)
NextPass ==
    IF current_faculty < n_faculties
    THEN /\ current_faculty' = current_faculty + 1
         /\ pref_rank' = pref_rank
         /\ pc' = "loop"
    ELSE IF pref_rank < n_faculties
    THEN /\ current_faculty' = 1
         /\ pref_rank' = pref_rank + 1
         /\ pc' = "loop"
    ELSE /\ current_faculty' = current_faculty
         /\ pref_rank' = pref_rank
         /\ pc' = "unalloc"

alloc_record(student, fac, rank) ==
    [Roll |-> student.Roll, CGPA |-> student.CGPA, Allocated |-> fac,
     Preference_Rank_Allocated |-> rank]

\* One (pref_rank, current_faculty) pass whose inner loop reaches line 121
\* with a match: lines 100-139.
PassAllocate ==
    /\ pc = "loop"
    /\ LET k == FirstMatch(sorted_students, allocated_student_rolls, pref_rank,
                           current_faculty, n_faculties)
       IN /\ k # 0
          /\ allocated_student_rolls' = allocated_student_rolls \cup {sorted_students[k].Roll}
          /\ faculty_alloc_count' =
                 [faculty_alloc_count EXCEPT ![current_faculty] = @ + 1]
          /\ final_allocation_list' =
                 Append(final_allocation_list,
                        alloc_record(sorted_students[k], current_faculty, pref_rank))
    /\ NextPass
    /\ UNCHANGED <<df, n_faculties, stats_df, sorted_students, final_alloc_df>>

\* One pass whose inner loop runs to its end without a match.
PassNoMatch ==
    /\ pc = "loop"
    /\ FirstMatch(sorted_students, allocated_student_rolls, pref_rank,
                  current_faculty, n_faculties) = 0
    /\ NextPass
    /\ UNCHANGED <<df, n_faculties, stats_df, sorted_students,
                   allocated_student_rolls, faculty_alloc_count,
                   final_allocation_list, final_alloc_df>>

\* Variant: the loop stops at the first allocated student (break instead of
\* skipping it).
RECURSIVE UnallocatedUntilAllocated(_, _, _)
UnallocatedUntilAllocated(students, allocated, k) ==
    IF k > Len(students) THEN <<>>
    ELSE IF students[k].Roll \notin allocated
    THEN <<[Roll |-> students[k].Roll, CGPA |-> students[k].CGPA,
            Allocated |-> UNALLOCATED, Preference_Rank_Allocated |-> -1]>>
             \o UnallocatedUntilAllocated(students, allocated, k + 1)
    ELSE <<>>

\* Lines 146-156: the records of the students not in allocated_student_rolls,
\* in sorted order.
RECURSIVE UnallocatedFrom(_, _, _)
UnallocatedFrom(students, allocated, k) ==
    IF k > Len(students) THEN <<>>
    ELSE IF students[k].Roll \notin allocated
    THEN <<alloc_record(students[k], UNALLOCATED, -1)>> \o UnallocatedFrom(students, allocated, k + 1)
    ELSE UnallocatedFrom(students, allocated, k + 1)

\* Variant: off by one in the test of unallocated_count.
unallocated_records_gt1(students, allocated) ==
    IF Len(students) - Cardinality(allocated) > 1
    THEN UnallocatedFrom(students, allocated, 1)
    ELSE <<>>

unallocated_records(students, allocated) ==
    IF Len(students) - Cardinality(allocated) > 0
    THEN UnallocatedFrom(students, allocated, 1)
    ELSE <<>>

\* Lines 142-156
EmitUnallocated ==
    /\ pc = "unalloc"
    /\ final_allocation_list' =
           final_allocation_list \o unallocated_records(sorted_students, allocated_student_rolls)
    /\ pc' = "frame"
    /\ UNCHANGED <<df, n_faculties, stats_df, sorted_students, pref_rank,
                   current_faculty, allocated_student_rolls, faculty_alloc_count,
                   final_alloc_df>>

\* Lines 162-170: pd.DataFrame(list_of_dicts) has the dicts' keys as columns
\* and no column at all for an empty list; selecting output_cols raises
\* KeyError when a selected column is missing.
frame_columns(records) ==
    IF Len(records) = 0 THEN {}
    ELSE {"Roll", "Name", "Email", "CGPA", "Allocated", "Preference_Rank_Allocated"}

output_cols(columns) ==
    {"Roll", "Name", "Email", "CGPA", "Allocated"}
        \cup (IF "Preference_Rank_Allocated" \in columns
              THEN {"Preference_Rank_Allocated"} ELSE {})

selection_ok(records) == output_cols(frame_columns(records)) \subseteq frame_columns(records)

\* Lines 162-172, the selection succeeds
BuildFrame ==
    /\ pc = "frame"
    /\ selection_ok(final_allocation_list)
    /\ final_alloc_df' = final_allocation_list
    /\ pc' = "done"
    /\ UNCHANGED <<df, n_faculties, stats_df, sorted_students, pref_rank,
                   current_faculty, allocated_student_rolls, faculty_alloc_count,
                   final_allocation_list>>

\* Lines 170, 174-176: the selection raises, the exception is logged and
\* re-raised; nothing is returned.
BuildFrameError ==
    /\ pc = "frame"
    /\ ~selection_ok(final_allocation_list)
    /\ pc' = "error"
    /\ UNCHANGED <<df, n_faculties, stats_df, sorted_students, pref_rank,
                   current_faculty, allocated_student_rolls, faculty_alloc_count,
                   final_allocation_list, final_alloc_df>>

Next ==
    \/ CalcStats
    \/ SortStudents
    \/ PassAllocate
    \/ PassNoMatch
    \/ EmitUnallocated
    \/ BuildFrame
    \/ BuildFrameError

Spec == Init /\ [][Next]_vars

SpecCells == InitCells /\ [][Next]_vars

\* ---------------------------------------------------------------------
\* Properties
\* ---------------------------------------------------------------------

\* The numeric value of the cell of student s in column fac equals rank.
HoldsRank(s, rank, fac) == NumEq(to_numeric(s.pref[fac]), rank)

\* fac is the first column, in resource-list order, in which s holds rank.
Eligible(s, rank, fac) ==
    /\ HoldsRank(s, rank, fac)
    /\ \A f \in 1..(fac - 1) : ~HoldsRank(s, rank, f)

\* Positions in sorted_students of the students that are not yet allocated
\* and eligible in the current (pref_rank, current_faculty) pass.
EligiblePositions ==
    {k \in 1..Len(sorted_students) :
        /\ sorted_students[k].Roll \notin allocated_student_rolls
        /\ Eligible(sorted_students[k], pref_rank, current_faculty)}

Min(S) == CHOOSE x \in S : \A y \in S : x <= y

\* Positions of the records of Roll r in a list of assignment records.
RecordsOf(list, r) == {j \in 1..Len(list) : list[j].Roll = r}

IsAllocatedRecord(rec) == rec.Allocated # UNALLOCATED

\* The perform_allocation loops are over: only lines 141-172 remain.
PassesOver == pc \in {"unalloc", "frame", "done", "error"}

\* C1 (Totality): with at least one consumer (Rolls are unique), the run
\* returns a frame, the frame has exactly as many records as there are
\* consumer rows, and every input Roll is in exactly one record.
C1_Totality ==
    Len(df) >= 1 =>
        /\ pc # "error"
        /\ pc = "done" =>
             /\ Len(final_alloc_df) = Len(df)
             /\ \A k \in 1..Len(df) :
                  Cardinality(RecordsOf(final_alloc_df, df[k].Roll)) = 1

\* C1 witness: a finished run over three consumers of which one is
\* allocated and one is not.
C1_Witness ==
    /\ pc = "done"
    /\ Len(df) = 3
    /\ Len(final_alloc_df) = 3
    /\ \E i, j \in 1..3 : /\ IsAllocatedRecord(final_alloc_df[i])
                          /\ ~IsAllocatedRecord(final_alloc_df[j])

\* C2 (Merit priority within a pass): in a (pref_rank, current_faculty)
\* pass with at least one not-yet-allocated eligible consumer, exactly one
\* consumer is allocated, to current_faculty at pref_rank: the eligible one
\* that is first in the merit-descending list, whose merit no other eligible
\* consumer exceeds; no other consumer is allocated in the pass.
C2_MeritPriority ==
    [][(pc = "loop" /\ EligiblePositions # {}) =>
          LET w == Min(EligiblePositions)
              winner == sorted_students[w]
          IN /\ allocated_student_rolls' = allocated_student_rolls \cup {winner.Roll}
             /\ final_allocation_list' =
                    Append(final_allocation_list,
                           [Roll |-> winner.Roll, CGPA |-> winner.CGPA,
                            Allocated |-> current_faculty,
                            Preference_Rank_Allocated |-> pref_rank])
             /\ \A k \in EligiblePositions :
                    /\ Before(winner, sorted_students[k])
                    /\ k # w => sorted_students[k].Roll \notin allocated_student_rolls'
      ]_vars

\* C2 witness: a pass has allocated a consumer while a consumer of strictly
\* lower merit, eligible for the same pass, was left unallocated by it.
C2_Witness ==
    \E j \in 1..Len(final_allocation_list) :
        LET rec == final_allocation_list[j] IN
        /\ IsAllocatedRecord(rec)
        /\ \E k \in 1..Len(sorted_students) :
              LET b == sorted_students[k] IN
              /\ b.Roll # rec.Roll
              /\ Eligible(b, rec.Preference_Rank_Allocated, rec.Allocated)
              /\ ~IsNaN(b.CGPA) /\ ~IsNaN(rec.CGPA) /\ b.CGPA.val < rec.CGPA.val
              /\ \A i \in 1..j : final_allocation_list[i].Roll # b.Roll

\* Every merit is a number and the first consumer of the merit-descending
\* list has strictly the highest.
TopMerit ==
    /\ Len(sorted_students) >= 1
    /\ \A k \in 1..Len(sorted_students) : ~IsNaN(sorted_students[k].CGPA)
    /\ \A k \in 2..Len(sorted_students) :
          sorted_students[k].CGPA.val < sorted_students[1].CGPA.val

\* The tie-break case of the current pass: the top-merit consumer holds
\* pref_rank in an earlier column, to which it was allocated at this rank,
\* and in current_faculty as well.
TieBrokenEarlier ==
    /\ pc = "loop"
    /\ TopMerit
    /\ HoldsRank(sorted_students[1], pref_rank, current_faculty)
    /\ \E j \in 1..Len(final_allocation_list) :
          /\ final_allocation_list[j].Roll = sorted_students[1].Roll
          /\ final_allocation_list[j].Preference_Rank_Allocated = pref_rank
          /\ final_allocation_list[j].Allocated \in 1..(current_faculty - 1)

\* A record was appended for current_faculty at pref_rank in this step.
PassAllocated ==
    /\ Len(final_allocation_list') = Len(final_allocation_list) + 1
    /\ final_allocation_list'[Len(final_allocation_list')].Allocated = current_faculty
    /\ final_allocation_list'[Len(final_allocation_list')].Preference_Rank_Allocated = pref_rank

\* Every allocated record names the first column in which its consumer
\* holds the record's rank.
EarlierResourceWins ==
    \A j \in 1..Len(final_allocation_list) :
        LET rec == final_allocation_list[j] IN
        IsAllocatedRecord(rec) =>
            \A f \in 1..(rec.Allocated - 1) :
                ~HoldsRank(df[rec.Roll], rec.Preference_Rank_Allocated, f)

\* C3 as stated (Resource-order tie-break): after the earlier resource took
\* the top consumer, the other resource is not left without an allocation
\* in its pass if another unallocated consumer ranks it at that rank.
C3_Original ==
    [][(TieBrokenEarlier
          /\ \E k \in 1..Len(sorted_students) :
                /\ sorted_students[k].Roll \notin allocated_student_rolls
                /\ HoldsRank(sorted_students[k], pref_rank, current_faculty))
       => PassAllocated]_vars

\* C3 as amended: a consumer that holds one rank in two columns is only
\* ever allocated to the earlier one, and after the earlier resource took
\* the top consumer the other resource receives an allocation in its pass
\* if another unallocated consumer is eligible for it (the other resource
\* is the first column in which that consumer holds the rank).
C3_TieBreak ==
    [][/\ EarlierResourceWins'
       /\ (TieBrokenEarlier /\ EligiblePositions # {})
             => /\ PassAllocated
                /\ final_allocation_list'[Len(final_allocation_list')].Roll
                       # sorted_students[1].Roll
      ]_vars

\* C3 witness: the top consumer holds one rank in two columns and was
\* allocated to the earlier one; the later one was allocated to another
\* consumer at the same rank.
C3_Witness ==
    /\ Len(sorted_students) >= 2
    /\ TopMerit
    /\ \E i, j \in 1..Len(final_allocation_list) :
          LET r1 == final_allocation_list[i]
              r2 == final_allocation_list[j] IN
          /\ i < j
          /\ r1.Roll = sorted_students[1].Roll
          /\ IsAllocatedRecord(r1) /\ IsAllocatedRecord(r2)
          /\ r1.Preference_Rank_Allocated = r2.Preference_Rank_Allocated
          /\ r1.Allocated < r2.Allocated
          /\ HoldsRank(sorted_students[1], r1.Preference_Rank_Allocated, r2.Allocated)

\* Number of consumer rows whose value in column fac, coerced to a number,
\* equals rank i.
CoercedCount(fac, i) == Cardinality({k \in 1..Len(df) : HoldsRank(df[k], i, fac)})

\* C4 (Preference tabulation): for every resource column and every rank r
\* in 1..N, 'Count Pref r' equals the number of consumer rows whose value in
\* that column, after coercion to a number, equals r.
C4_Tabulation ==
    pc # "stats" =>
        /\ DOMAIN stats_df = 1..n_faculties
        /\ \A fac \in 1..n_faculties :
              /\ DOMAIN stats_df[fac] = 1..n_faculties
              /\ \A i \in 1..n_faculties : stats_df[fac][i] = CoercedCount(fac, i)

\* A cell that expresses no rank: missing, not a number, zero or negative.
InvalidCell(x) ==
    \/ x.kind \in {"nan", "text"}
    \/ x.kind \in {"int", "str"} /\ x.val <= 0

NoNumericValue(s) == \A f \in 1..n_faculties : IsNaN(to_numeric(s.pref[f]))

IsUnallocatedRecord(rec) ==
    rec.Allocated = UNALLOCATED /\ rec.Preference_Rank_Allocated = -1

\* C6 (Unallocated handling): once the unallocated consumers are emitted,
\* every consumer not marked allocated has one record, with Allocated =
\* UNALLOCATED and rank -1; so has every consumer with no numeric value in
\* any resource column; a record with a resource carries a rank in 1..N.
C6_Unallocated ==
    pc \in {"frame", "done", "error"} =>
        /\ \A k \in 1..Len(sorted_students) :
              LET s == sorted_students[k] IN
              (s.Roll \notin allocated_student_rolls \/ NoNumericValue(s)) =>
                  /\ Cardinality(RecordsOf(final_allocation_list, s.Roll)) = 1
                  /\ \A j \in RecordsOf(final_allocation_list, s.Roll) :
                        IsUnallocatedRecord(final_allocation_list[j])
        /\ \A j \in 1..Len(final_allocation_list) :
              LET rec == final_allocation_list[j] IN
              IF IsAllocatedRecord(rec)
              THEN rec.Preference_Rank_Allocated \in 1..n_faculties
              ELSE IsUnallocatedRecord(rec)
        /\ pc = "done" => final_alloc_df = final_allocation_list

\* C6 witness: a finished run in which one consumer is allocated, one has
\* no numeric value at all, and one holds a rank but stays unallocated.
C6_Witness ==
    /\ pc = "done"
    /\ \E j \in 1..Len(final_alloc_df) : IsAllocatedRecord(final_alloc_df[j])
    /\ \E k \in 1..Len(sorted_students) : NoNumericValue(sorted_students[k])
    /\ \E k \in 1..Len(sorted_students) :
          /\ ~NoNumericValue(sorted_students[k])
          /\ sorted_students[k].Roll \notin allocated_student_rolls

\* C7 (Empty consumer set): with zero rows and N >= 1 resource columns the
\* run raises no error and returns an empty frame.
C7_EmptyYieldsEmpty ==
    Len(df) = 0 =>
        /\ pc # "error"
        /\ pc = "done" => final_alloc_df = <<>>

\* C8 (Malformed merit): a missing CGPA in any consumer row makes the run
\* fail before the consumers are sorted; no assignment record is produced.
C8_MalformedMeritFails ==
    (\E k \in 1..Len(df) : IsNaN(df[k].CGPA)) =>
        /\ pc \notin {"loop", "unalloc", "frame", "done"}
        /\ final_allocation_list = <<>>

\* Position of Roll r in sorted_students.
PositionOf(r) == CHOOSE k \in 1..Len(sorted_students) : sorted_students[k].Roll = r

NumAllocatedRecords ==
    Cardinality({j \in 1..Len(final_allocation_list) :
                    IsAllocatedRecord(final_allocation_list[j])})

\* C9 (Output ordering): the allocated records come first, in strictly
\* ascending (rank, resource position) order, so at most one per (rank,
\* resource) pair; the UNALLOCATED records follow, in the order of the
\* merit-descending list.
C9_OutputOrdering ==
    LET L == final_allocation_list
        A == NumAllocatedRecords
    IN /\ \A j \in 1..Len(L) : IsAllocatedRecord(L[j]) <=> j <= A
       /\ \A i, j \in 1..A :
             i < j =>
                 \/ L[i].Preference_Rank_Allocated < L[j].Preference_Rank_Allocated
                 \/ /\ L[i].Preference_Rank_Allocated = L[j].Preference_Rank_Allocated
                    /\ L[i].Allocated < L[j].Allocated
       /\ \A i, j \in (A + 1)..Len(L) :
             i < j => /\ PositionOf(L[i].Roll) < PositionOf(L[j].Roll)
                      /\ Before(L[i], L[j])
       /\ pc = "done" => final_alloc_df = L

\* C9 witness: a returned frame of two allocated records, the second of a
\* later rank than the first, followed by an UNALLOCATED record.
C9_Witness ==
    /\ pc = "done"
    /\ Len(final_alloc_df) = 3
    /\ IsAllocatedRecord(final_alloc_df[1])
    /\ IsAllocatedRecord(final_alloc_df[2])
    /\ final_alloc_df[1].Preference_Rank_Allocated < final_alloc_df[2].Preference_Rank_Allocated
    /\ ~IsAllocatedRecord(final_alloc_df[3])

\* The rank at which Roll r was allocated; n_faculties + 1 when it was not.
AllocRank(r) ==
    IF \E j \in 1..Len(final_allocation_list) :
           final_allocation_list[j].Roll = r /\ IsAllocatedRecord(final_allocation_list[j])
    THEN LET j == CHOOSE j \in 1..Len(final_allocation_list) :
                      /\ final_allocation_list[j].Roll = r
                      /\ IsAllocatedRecord(final_allocation_list[j])
         IN final_allocation_list[j].Preference_Rank_Allocated
    ELSE n_faculties + 1

\* Consumer at position i was eligible for resource fac at rank k, below
\* the rank at which it was allocated (any rank when it was not).
PassedOver(i, k, fac) ==
    /\ k < AllocRank(sorted_students[i].Roll)
    /\ Eligible(sorted_students[i], k, fac)

\* C10 (Justified pass-over): when the passes are over, a consumer passed
\* over at rank k for its resource of that rank was passed over because the
\* (k, resource) pass allocated the resource to a consumer that precedes it
\* in the merit-descending list.
C10_JustifiedPassOver ==
    PassesOver =>
        \A i \in 1..Len(sorted_students), k \in 1..n_faculties, fac \in 1..n_faculties :
            PassedOver(i, k, fac) =>
                \E j \in 1..Len(final_allocation_list) :
                    /\ final_allocation_list[j].Preference_Rank_Allocated = k
                    /\ final_allocation_list[j].Allocated = fac
                    /\ PositionOf(final_allocation_list[j].Roll) < i

\* C10 witness: a finished run in which a consumer was passed over at rank
\* 1 and allocated at a later rank, and another was passed over and stays
\* unallocated.
C10_Witness ==
    /\ pc = "done"
    /\ \E i \in 1..Len(sorted_students), fac \in 1..n_faculties :
          /\ PassedOver(i, 1, fac)
          /\ AllocRank(sorted_students[i].Roll) <= n_faculties
    /\ \E i \in 1..Len(sorted_students), k \in 1..n_faculties, fac \in 1..n_faculties :
          /\ PassedOver(i, k, fac)
          /\ AllocRank(sorted_students[i].Roll) = n_faculties + 1

====
